---- MODULE Spec2Model ----
(***************************************************************************)
(* Model of rename-index-files.ts: a script that renames index.* files to  *)
(* the name of their directory and rewrites the import specifiers that     *)
(* resolve to them.                                                        *)
(*                                                                         *)
(* Strings (paths, file names, specifiers) are sequences of one-character  *)
(* strings, so that endsWith, substring, basename and the regular          *)
(* expressions of the script are computed character by character.          *)
(***************************************************************************)
EXTENDS Integers, Sequences, FiniteSets, TLC

VARIABLES
    targetFolderPath, \* argv[0]: the folder whose index files are renamed
    tsConfigExists,   \* whether the file named by argv[1] is on disk
    disk,             \* the file system: path -> [origin, imports]
    disk0,            \* the file system when the script started
    mem,              \* the ts-morph project: path -> [imports, saved]
    indexFiles,       \* the filtered array of line 70, in iteration order
    idx,              \* position of forEach in indexFiles
    pc,               \* "run", "done" or "failed"
    exitCode,         \* process exit status (0 until the script fails)
    nParent,          \* name derivation alone: parent directory name
    nFile,            \* name derivation alone: file name
    nResult,          \* name derivation alone: derived base name
    nPc               \* name derivation alone: "start" or "derived"

vars == <<targetFolderPath, tsConfigExists, disk, disk0, mem, indexFiles, idx, pc, exitCode,
          nParent, nFile, nResult, nPc>>

mainVars == <<targetFolderPath, tsConfigExists, disk, disk0, mem, indexFiles, idx, pc, exitCode>>
nameVars == <<nParent, nFile, nResult, nPc>>

----------------------------------------------------------------------------
(* Bounds of the model.                                                    *)

MaxFiles == 3

MaxImports == 2

MaxSuffix == 4

----------------------------------------------------------------------------
(* String primitives of JavaScript and node:path, on character sequences.  *)

Max(S) == CHOOSE x \in S : \A y \in S : y <= x

startsWith(s, p) == Len(p) <= Len(s) /\ SubSeq(s, 1, Len(p)) = p

endsWith(s, p) == Len(p) <= Len(s) /\ SubSeq(s, Len(s) - Len(p) + 1, Len(s)) = p

includes(s, p) == \E i \in 0..(Len(s) - Len(p)) : SubSeq(s, i + 1, i + Len(p)) = p

substring(s, from, to) == SubSeq(s, from + 1, to)

lastIndexOf(s, c) ==
    LET I == {i \in 1..Len(s) : s[i] = c}
    IN  IF I = {} THEN 0 ELSE Max(I)

basename(p) == SubSeq(p, lastIndexOf(p, "/") + 1, Len(p))

dirname(p) ==
    LET k == lastIndexOf(p, "/")
    IN  IF k = 0 THEN <<".">>
        ELSE IF k = 1 THEN <<"/">>
        ELSE SubSeq(p, 1, k - 1)

join(dir, name) ==
    IF dir = <<"/">> THEN dir \o name ELSE dir \o <<"/">> \o name

normalizePath(p) == [i \in 1..Len(p) |-> IF p[i] = "\\" THEN "/" ELSE p[i]]

----------------------------------------------------------------------------
(* Literals of the script.                                                 *)

Index == <<"i", "n", "d", "e", "x">>
IndexDot == Index \o <<".">>
SlashIndex == <<"/">> \o Index
DotTs == <<".", "t", "s">>
DotTsx == <<".", "t", "s", "x">>
DotJs == <<".", "j", "s">>
DotJsx == <<".", "j", "s", "x">>
DotDTs == <<".", "d">> \o DotTs

StandardNames == {Index \o DotTs, Index \o DotTsx, Index \o DotJs, Index \o DotJsx}

----------------------------------------------------------------------------
(* Step 2: name derivation (lines 82-100).                                 *)

\* fileName.match(/^index(\..+\.)([^.]+)$/): the two groups, or <<>> for null.
\* The groups can only split at the last dot: [^.]+$ takes the dot-free tail,
\* \. the dot before it, and .+ needs one character after the first dot.
patternMatch(fileName) ==
    LET r == SubSeq(fileName, Len(Index) + 1, Len(fileName))
        k == lastIndexOf(r, ".")
    IN  IF /\ startsWith(fileName, Index)
           /\ Len(r) >= 1
           /\ r[1] = "."
           /\ k >= 3
           /\ k < Len(r)
        THEN <<SubSeq(r, 1, k), SubSeq(r, k + 1, Len(r))>>
        ELSE <<>>

\* fileName.match(/^index(\.[^.]+)$/): the group, or <<>> for null.
simpleMatch(fileName) ==
    LET r == SubSeq(fileName, Len(Index) + 1, Len(fileName))
    IN  IF /\ startsWith(fileName, Index)
           /\ Len(r) >= 2
           /\ r[1] = "."
           /\ lastIndexOf(r, ".") = 1
        THEN <<r>>
        ELSE <<>>

\* A bug the derivation could have: the middle segments are dropped.
extensionDropsMiddle(fileName) ==
    IF patternMatch(fileName) # <<>>
    THEN <<".">> \o patternMatch(fileName)[2]
    ELSE IF simpleMatch(fileName) # <<>> THEN simpleMatch(fileName)[1] ELSE DotTsx

extension(fileName) ==
    IF patternMatch(fileName) # <<>>
    THEN patternMatch(fileName)[1] \o patternMatch(fileName)[2]
    ELSE IF simpleMatch(fileName) # <<>> THEN simpleMatch(fileName)[1] ELSE DotTsx

parentName(filePath) == basename(dirname(filePath))

newBaseName(parent, fileName) == parent \o extension(fileName)

newFilePath(filePath) ==
    join(dirname(filePath), newBaseName(parentName(filePath), basename(filePath)))

isStandardIndexFile(fileName) == fileName \in StandardNames

\* The filter of lines 70-76.
isSelected(filePath, target) ==
    /\ includes(normalizePath(filePath), normalizePath(target))
    /\ startsWith(basename(normalizePath(filePath)), IndexDot)

----------------------------------------------------------------------------
(* Module resolution of the TypeScript program behind ts-morph, as used by *)
(* imp.getModuleSpecifierSourceFile() (line 115) and                      *)
(* file.getReferencingSourceFiles() (line 110): relative specifiers only,  *)
(* a file before a directory, extensions in the compiler's order.  A file  *)
(* exists for the resolver when the project holds it in memory or the disk *)
(* has it.                                                                 *)

NoFile == <<>>

ResolveExts == <<DotTs, DotTsx, DotDTs>>

Min(S) == CHOOSE x \in S : \A y \in S : x <= y

RECURSIVE split(_)
split(s) ==
    LET I == {i \in 1..Len(s) : s[i] = "/"}
    IN  IF I = {} THEN <<s>>
        ELSE <<SubSeq(s, 1, Min(I) - 1)>> \o split(SubSeq(s, Min(I) + 1, Len(s)))

RECURSIVE applySegments(_, _)
applySegments(stack, segs) ==
    IF segs = <<>> THEN stack
    ELSE LET h == Head(segs)
         IN  applySegments(
                 IF h = <<>> \/ h = <<".">> THEN stack
                 ELSE IF h = <<".", ".">>
                      THEN (IF stack = <<>> THEN stack ELSE SubSeq(stack, 1, Len(stack) - 1))
                      ELSE Append(stack, h),
                 Tail(segs))

RECURSIVE joinSegments(_)
joinSegments(stack) ==
    IF stack = <<>> THEN <<>>
    ELSE <<"/">> \o Head(stack) \o joinSegments(Tail(stack))

isRelative(spec) ==
    \/ spec = <<".">>
    \/ spec = <<".", ".">>
    \/ startsWith(spec, <<".", "/">>)
    \/ startsWith(spec, <<".", ".", "/">>)

candidatePath(fromPath, spec) ==
    joinSegments(applySegments(<<>>, split(dirname(fromPath)) \o split(spec)))

withExtensions(base) == [i \in 1..Len(ResolveExts) |-> base \o ResolveExts[i]]

RECURSIVE firstExisting(_, _)
firstExisting(cands, known) ==
    IF cands = <<>> THEN NoFile
    ELSE IF Head(cands) \in known THEN Head(cands)
    ELSE firstExisting(Tail(cands), known)

resolveModule(fromPath, spec, known) ==
    IF ~isRelative(spec) THEN NoFile
    ELSE LET c == candidatePath(fromPath, spec)
             last == split(spec)[Len(split(spec))]
             dirOnly == last = <<>> \/ last = <<".">> \/ last = <<".", ".">>
             replaced == IF endsWith(c, DotJs)
                         THEN withExtensions(SubSeq(c, 1, Len(c) - Len(DotJs)))
                         ELSE <<>>
             asFile == IF dirOnly THEN <<>> ELSE replaced \o withExtensions(c)
             asDir == withExtensions(c \o SlashIndex)
         IN  firstExisting(asFile \o asDir, known)

----------------------------------------------------------------------------
(* The projects the model runs the script on.                              *)
pA == <<"/", "s", "/", "A", ".", "t", "s">>  \* /s/A.ts
pBI == <<"/", "s", "/", "B", "/", "i", "n", "d", "e", "x", ".", "t", "s">>  \* /s/B/index.ts
pBT == <<"/", "s", "/", "B", "/", "i", "n", "d", "e", "x", ".", "t", "e", "s", "t", ".", "t", "s">>  \* /s/B/index.test.ts
pBB == <<"/", "s", "/", "B", "/", "B", ".", "t", "s">>  \* /s/B/B.ts
pBBI == <<"/", "s", "/", "B", "/", "B", "/", "i", "n", "d", "e", "x", ".", "t", "s">>  \* /s/B/B/index.ts
pCI == <<"/", "s", "/", "C", "/", "i", "n", "d", "e", "x", ".", "t", "s", "x">>  \* /s/C/index.tsx
pZT == <<"/", "s", "/", "i", "n", "d", "e", "x", ".", "z", "/", "i", "n", "d", "e", "x", ".", "t", "e", "s", "t", ".", "t", "s">>  \* /s/index.z/index.test.ts
pZZT == <<"/", "s", "/", "i", "n", "d", "e", "x", ".", "z", "/", "i", "n", "d", "e", "x", ".", "z", ".", "t", "e", "s", "t", ".", "t", "s">>  \* /s/index.z/index.z.test.ts
pII == <<"/", "s", "/", "i", "n", "d", "e", "x", "/", "i", "n", "d", "e", "x", ".", "t", "s">>  \* /s/index/index.ts
pOI == <<"/", "o", "/", "B", "/", "i", "n", "d", "e", "x", ".", "t", "s">>  \* /o/B/index.ts

PathUniverse == {pA, pBI, pBT, pBB, pBBI, pCI, pZT, pZZT, pII, pOI}

sB == <<".", "/", "B">>  \* ./B
sBIndex == <<".", "/", "B", "/", "i", "n", "d", "e", "x">>  \* ./B/index
sBB == <<".", "/", "B", "/", "B">>  \* ./B/B
sBIndexJs == <<".", "/", "B", "/", "i", "n", "d", "e", "x", ".", "j", "s">>  \* ./B/index.js
sPkgB == <<"x", "/", "B">>  \* x/B
sC == <<".", "/", "C">>  \* ./C
sBIndexTest == <<".", "/", "B", "/", "i", "n", "d", "e", "x", ".", "t", "e", "s", "t">>  \* ./B/index.test
sUpC == <<".", ".", "/", "C">>  \* ../C
sUpB == <<".", ".", "/", "B">>  \* ../B
sIndex == <<".", "/", "i", "n", "d", "e", "x">>  \* ./index
sUpOB == <<".", ".", "/", "o", "/", "B">>  \* ../o/B

\* The import declarations a project may hold: [file, spec].
ImportUniverse ==
    << [file |-> pA, spec |-> sB],
       [file |-> pA, spec |-> sBIndex],
       [file |-> pA, spec |-> sBB],
       [file |-> pA, spec |-> sBIndexJs],
       [file |-> pA, spec |-> sPkgB],
       [file |-> pA, spec |-> sC],
       [file |-> pA, spec |-> sBIndexTest],
       [file |-> pA, spec |-> sUpOB],
       [file |-> pA, spec |-> sIndex],
       [file |-> pBI, spec |-> sUpC],
       [file |-> pBI, spec |-> sB],
       [file |-> pCI, spec |-> sUpB],
       [file |-> pBB, spec |-> sUpC] >>

TargetFolders == {<<"/", "s">>, <<"/", "s", "/", "B">>}

----------------------------------------------------------------------------
(* The file system (node:fs) and the ts-morph project.  A file's text is   *)
(* the sequence of its import specifiers; origin names the file (inode)    *)
(* by the path it had when the script started, NoFile for a file created   *)
(* later.                                                                  *)

isDirectory(d, p) == \E q \in DOMAIN d : startsWith(q, p \o <<"/">>)

existsSync(d, p) == p \in DOMAIN d \/ isDirectory(d, p)

\* fs.renameSync throws when the source is missing or the target is a
\* directory; an existing file at the target is replaced (rename(2)).
renameThrows(d, oldPath, newPath) == oldPath \notin DOMAIN d \/ isDirectory(d, newPath)

renameSync(d, oldPath, newPath) ==
    [p \in (DOMAIN d \ {oldPath}) \cup {newPath} |->
        IF p = newPath THEN d[oldPath] ELSE d[p]]

\* The files a program behind the project sees.
knownFiles(m, d) == DOMAIN m \cup DOMAIN d

\* Building the program adds to the project every file on disk an import of
\* a held file resolves to (the compiler host's getSourceFile).
RECURSIVE loadResolved(_, _)
loadResolved(m, d) ==
    LET fresh == {t \in DOMAIN d \ DOMAIN m :
                    \E p \in DOMAIN m : \E i \in DOMAIN m[p].imports :
                        resolveModule(p, m[p].imports[i], knownFiles(m, d)) = t}
    IN  IF fresh = {} THEN m
        ELSE loadResolved(
                 [p \in DOMAIN m \cup fresh |->
                     IF p \in DOMAIN m THEN m[p]
                     ELSE [imports |-> d[p].imports, saved |-> TRUE]],
                 d)

\* Lines 123-130: the new specifier text.
rewriteSpecifier(spec, parent) ==
    IF endsWith(spec, SlashIndex)
    THEN substring(spec, 0, Len(spec) - 6) \o <<"/">> \o parent
    ELSE spec \o <<"/">> \o parent

\* The text-suffix matching of the older variant of the script.
matchesBySuffix(sfPath, spec, filePath, known) ==
    \/ endsWith(spec, <<"/">> \o parentName(filePath) \o SlashIndex)
    \/ endsWith(spec, <<"/">> \o parentName(filePath))

\* Lines 115-118: the import declaration resolves to the renamed file.
matchesRenamed(sfPath, spec, filePath, known) ==
    resolveModule(sfPath, spec, known) = filePath

\* Lines 110-133: the referrer rewrite for one renamed standard index file.
rewriteReferrers(m, d, filePath) ==
    LET known == knownFiles(m, d)
        hit(p, i) == matchesRenamed(p, m[p].imports[i], filePath, known)
    IN  [p \in DOMAIN m |->
            IF \E i \in DOMAIN m[p].imports : hit(p, i)
            THEN [imports |-> [i \in DOMAIN m[p].imports |->
                                  IF hit(p, i)
                                  THEN rewriteSpecifier(m[p].imports[i], parentName(filePath))
                                  ELSE m[p].imports[i]],
                  saved |-> FALSE]
            ELSE m[p]]

\* project.saveSync(): every unsaved source file is written at the path the
\* project holds it under.
saveSync(m, d) ==
    LET unsaved == {p \in DOMAIN m : ~m[p].saved}
    IN  [p \in DOMAIN d \cup unsaved |->
            IF p \in unsaved
            THEN [origin |-> IF p \in DOMAIN d THEN d[p].origin ELSE NoFile,
                  imports |-> m[p].imports]
            ELSE d[p]]

\* A bug the loop could have: each edited file is written as soon as edited.
forEachBodySavingEach(m, d, filePath) ==
    LET d1 == renameSync(d, filePath, newFilePath(filePath))
        m1 == IF isStandardIndexFile(basename(filePath))
              THEN loadResolved(rewriteReferrers(loadResolved(m, d1), d1, filePath), d1)
              ELSE m
    IN  [disk |-> saveSync(m1, d1),
         mem |-> [p \in DOMAIN m1 |-> [m1[p] EXCEPT !.saved = TRUE]]]

\* Lines 79-135: one iteration of indexFiles.forEach whose rename succeeds.
forEachBody(m, d, filePath) ==
    LET d1 == renameSync(d, filePath, newFilePath(filePath))
    IN  [disk |-> d1,
         mem |-> IF isStandardIndexFile(basename(filePath))
                 THEN loadResolved(rewriteReferrers(loadResolved(m, d1), d1, filePath), d1)
                 ELSE m]

----------------------------------------------------------------------------
(* The script as a state machine.                                          *)

Perms(S) == {f \in [1..Cardinality(S) -> S] : \A i, j \in 1..Cardinality(S) : f[i] = f[j] => i = j}

importsOf(p, chosen) ==
    LET F[n \in 0..Len(ImportUniverse)] ==
            IF n = 0 THEN <<>>
            ELSE IF n \in chosen /\ ImportUniverse[n].file = p
                 THEN Append(F[n - 1], ImportUniverse[n].spec)
                 ELSE F[n - 1]
    IN  F[Len(ImportUniverse)]

Init ==
    /\ targetFolderPath \in TargetFolders
    /\ tsConfigExists \in BOOLEAN
    /\ \E files \in SUBSET PathUniverse :
       \E chosen \in SUBSET (1..Len(ImportUniverse)) :
          /\ files # {}
          /\ Cardinality(files) <= MaxFiles
          /\ Cardinality(chosen) <= MaxImports
          /\ \A n \in chosen : ImportUniverse[n].file \in files
          /\ disk = [p \in files |-> [origin |-> p, imports |-> importsOf(p, chosen)]]
    /\ disk0 = disk
    /\ mem = <<>>
    /\ indexFiles = <<>>
    /\ idx = 0
    /\ pc = "start"
    /\ exitCode = 0
    /\ nParent = <<>>
    /\ nFile = <<>>
    /\ nResult = <<>>
    /\ nPc = "idle"

\* Lines 36-39: the tsconfig file does not exist.
ExitNoTsConfig ==
    /\ pc = "start"
    /\ ~tsConfigExists
    /\ pc' = "failed"
    /\ exitCode' = 1
    /\ UNCHANGED <<targetFolderPath, tsConfigExists, disk, disk0, mem, indexFiles, idx, nameVars>>

\* Lines 41-44: the target folder does not exist.
ExitNoTarget ==
    /\ pc = "start"
    /\ tsConfigExists
    /\ ~existsSync(disk, targetFolderPath)
    /\ pc' = "failed"
    /\ exitCode' = 1
    /\ UNCHANGED <<targetFolderPath, tsConfigExists, disk, disk0, mem, indexFiles, idx, nameVars>>

\* Lines 47-77: the project is loaded and the index files are selected.  The
\* order of project.getSourceFiles() is the library's: any order is taken.
LoadProject ==
    /\ pc = "start"
    /\ tsConfigExists
    /\ existsSync(disk, targetFolderPath)
    /\ mem' = [p \in DOMAIN disk |-> [imports |-> disk[p].imports, saved |-> TRUE]]
    /\ indexFiles' \in Perms({p \in DOMAIN disk : isSelected(p, targetFolderPath)})
    /\ idx' = 1
    /\ pc' = "run"
    /\ UNCHANGED <<targetFolderPath, tsConfigExists, disk, disk0, exitCode, nameVars>>

\* Lines 103, 141-144: fs.renameSync throws (no permission, missing source,
\* a directory at the target); the catch block exits with status 1.
RenameFails ==
    /\ pc = "run"
    /\ idx <= Len(indexFiles)
    /\ pc' = "failed"
    /\ exitCode' = 1
    /\ UNCHANGED <<targetFolderPath, tsConfigExists, disk, disk0, mem, indexFiles, idx, nameVars>>

\* Lines 79-109: an index file that is not a standard one is renamed.
RenamePattern ==
    /\ pc = "run"
    /\ idx <= Len(indexFiles)
    /\ ~isStandardIndexFile(basename(indexFiles[idx]))
    /\ ~renameThrows(disk, indexFiles[idx], newFilePath(indexFiles[idx]))
    /\ disk' = forEachBody(mem, disk, indexFiles[idx]).disk
    /\ mem' = forEachBody(mem, disk, indexFiles[idx]).mem
    /\ idx' = idx + 1
    /\ UNCHANGED <<targetFolderPath, tsConfigExists, disk0, indexFiles, pc, exitCode, nameVars>>

\* Lines 79-135: a standard index file is renamed and its referrers rewritten.
RenameStandard ==
    /\ pc = "run"
    /\ idx <= Len(indexFiles)
    /\ isStandardIndexFile(basename(indexFiles[idx]))
    /\ ~renameThrows(disk, indexFiles[idx], newFilePath(indexFiles[idx]))
    /\ disk' = forEachBody(mem, disk, indexFiles[idx]).disk
    /\ mem' = forEachBody(mem, disk, indexFiles[idx]).mem
    /\ idx' = idx + 1
    /\ UNCHANGED <<targetFolderPath, tsConfigExists, disk0, indexFiles, pc, exitCode, nameVars>>

\* Lines 137-139: project.saveSync() after the loop.
SaveAll ==
    /\ pc = "run"
    /\ idx > Len(indexFiles)
    /\ disk' = saveSync(mem, disk)
    /\ mem' = [p \in DOMAIN mem |-> [mem[p] EXCEPT !.saved = TRUE]]
    /\ pc' = "done"
    /\ UNCHANGED <<targetFolderPath, tsConfigExists, disk0, indexFiles, idx, exitCode, nameVars>>

Next ==
    \/ ExitNoTsConfig
    \/ ExitNoTarget
    \/ LoadProject
    \/ RenameFails
    \/ RenamePattern
    \/ RenameStandard
    \/ SaveAll

Spec == Init /\ [][Next]_vars

----------------------------------------------------------------------------
(* Name derivation alone, on every file name "index." + a short suffix.    *)

NameAlphabet == {".", "t", "s"}

ParentNames == {<<"B">>, Index}

Suffixes == UNION {[1..n -> NameAlphabet] : n \in 0..MaxSuffix}

NameInit ==
    /\ nParent \in ParentNames
    /\ nFile \in {IndexDot \o s : s \in Suffixes}
    /\ nResult = <<>>
    /\ nPc = "start"
    /\ targetFolderPath = <<>>
    /\ tsConfigExists = TRUE
    /\ disk = <<>>
    /\ disk0 = <<>>
    /\ mem = <<>>
    /\ indexFiles = <<>>
    /\ idx = 0
    /\ pc = "idle"
    /\ exitCode = 0

\* Lines 86-100 applied to one file name.
DeriveName ==
    /\ nPc = "start"
    /\ nResult' = newBaseName(nParent, nFile)
    /\ nPc' = "derived"
    /\ UNCHANGED <<nParent, nFile, mainVars>>

NameNext == DeriveName

SpecName == NameInit /\ [][NameNext]_vars

----------------------------------------------------------------------------
(* Vocabulary of the properties.                                           *)

Range(f) == {f[i] : i \in DOMAIN f}

\* The import declarations of the project as loaded: <<file, position>>.
Decls == {d \in (DOMAIN disk0) \X (1..Len(ImportUniverse)) :
             d[2] \in DOMAIN disk0[d[1]].imports}

\* The specifier of a declaration and the file it resolved to before the run.
spec0(d) == disk0[d[1]].imports[d[2]]
target0(d) == resolveModule(d[1], spec0(d), DOMAIN disk0)

\* The specifier the declaration holds now, and the file it resolves to on
\* the disk as it is now.
specNow(d) == mem[d[1]].imports[d[2]]
targetNow(d) == resolveModule(d[1], specNow(d), DOMAIN disk)

isPatternName(fileName) == patternMatch(fileName) # <<>>

RECURSIVE applyRenames(_, _, _)
applyRenames(d, files, n) ==
    IF n = 0 THEN d
    ELSE LET before == applyRenames(d, files, n - 1)
         IN  renameSync(before, files[n], newFilePath(files[n]))

----------------------------------------------------------------------------
(* C1 - after a successful run every selected standard index file is on    *)
(* disk under its directory's name and no file has its original name      *)
(* (unless the two names are the same: a directory named index).           *)
C1_StandardRenamedOnDisk ==
    pc = "done" =>
        \A f \in Range(indexFiles) :
            isStandardIndexFile(basename(f)) =>
                /\ newFilePath(f) \in DOMAIN disk
                /\ (f \notin DOMAIN disk \/ newFilePath(f) = f)

(* C2 - after a successful run every import declaration that resolved to a *)
(* renamed standard index file holds one application of the rule to its    *)
(* original specifier, and none is left unchanged (unless the rule maps it  *)
(* to itself: a directory named index).                                    *)
C2_RuleAppliedOnce ==
    pc = "done" =>
        \A d \in Decls :
            (target0(d) \in Range(indexFiles) /\ isStandardIndexFile(basename(target0(d)))) =>
                /\ specNow(d) = (IF endsWith(spec0(d), SlashIndex)
                                 THEN SubSeq(spec0(d), 1, Len(spec0(d)) - 6)
                                 ELSE spec0(d)) \o <<"/">> \o parentName(target0(d))
                /\ (parentName(target0(d)) # Index => specNow(d) # spec0(d))

(* C3 - an import declaration that does not resolve to a file renamed in   *)
(* the run keeps its specifier, whatever its text ends with.               *)
C3_UnrelatedImportsUnchanged ==
    (pc \in {"run", "done", "failed"} /\ idx >= 1) =>
        \A d \in Decls :
            target0(d) \notin Range(indexFiles) => specNow(d) = spec0(d)

\* A finished run that renamed a standard index file with parent name P while
\* the project held an import ending in /P that resolved elsewhere.
C3_Witness ==
    /\ pc = "done"
    /\ \E d \in Decls : \E f \in Range(indexFiles) :
          /\ isStandardIndexFile(basename(f))
          /\ target0(d) \notin Range(indexFiles)
          /\ endsWith(spec0(d), <<"/">> \o parentName(f))
          /\ f \notin DOMAIN disk
          /\ specNow(d) = spec0(d)

(* C4 - after a successful run every selected pattern index file is on     *)
(* disk as P.<middle>.<ext>, and import specifiers are as before when only *)
(* pattern files were processed.                                           *)
C4_PatternRenamedNoRewrite ==
    pc = "done" =>
        /\ \A f \in Range(indexFiles) :
              isPatternName(basename(f)) => newFilePath(f) \in DOMAIN disk
        /\ ((\A f \in Range(indexFiles) : isPatternName(basename(f))) =>
               \A d \in Decls : specNow(d) = spec0(d))

(* C5 - after a successful run an import that resolved to a standard index *)
(* file resolves to the renamed file, and an import that resolved to a     *)
(* file that was not renamed resolves to the same file.                    *)
C5_ResolutionPreserved ==
    pc = "done" =>
        \A d \in Decls :
            /\ (target0(d) \in Range(indexFiles) /\ isStandardIndexFile(basename(target0(d)))) =>
                   targetNow(d) = newFilePath(target0(d))
            /\ (target0(d) # NoFile /\ target0(d) \notin Range(indexFiles)) =>
                   targetNow(d) = target0(d)

(* C6 - after a successful run no renamed file satisfies the selection     *)
(* predicate, so a second run selects none of them (a file whose new name  *)
(* is its old name, in a directory named index, is left aside).            *)
C6_SecondRunSelectsNone ==
    pc = "done" =>
        \A f \in Range(indexFiles) :
            \/ newFilePath(f) = f
            \/ ~startsWith(basename(newFilePath(f)), IndexDot)

(* C7 - when the rename of an index file targets a path that holds another *)
(* file, the run stops there with a failure status and that file stays.    *)
C7_ExistingTargetAborts ==
    \A j \in 1..Len(indexFiles) :
        LET t == newFilePath(indexFiles[j])
        IN  (t \in DOMAIN disk0 /\ t \notin Range(indexFiles)) =>
                /\ idx <= j
                /\ t \in DOMAIN disk
                /\ disk[t].origin = t
                /\ pc # "done"
                /\ ((idx = j /\ pc # "run") => (pc = "failed" /\ exitCode = 1))

(* C8 - before the persistence step the disk holds the renames done so far *)
(* and every file's original text; a failed rename leaves the earlier      *)
(* renames, saves nothing and exits with a failure status.                 *)
C8_EditsReachDiskOnlyAtSave ==
    pc \in {"start", "run", "failed"} =>
        /\ \A p \in DOMAIN disk :
              /\ disk[p].origin \in DOMAIN disk0
              /\ disk[p].imports = disk0[disk[p].origin].imports
        /\ disk = applyRenames(disk0, indexFiles, IF idx = 0 THEN 0 ELSE idx - 1)
        /\ pc = "failed" => exitCode = 1

\* The rename of a later index file failed after an earlier one was renamed
\* and an import was rewritten in memory.
C8_Witness ==
    /\ pc = "failed"
    /\ idx >= 2
    /\ \E p \in DOMAIN mem : ~mem[p].saved
    /\ disk # disk0

(* C9 - the derived name is the parent name followed by: everything after  *)
(* "index" when the name is index + "." + middle + "." + a dot-free        *)
(* extension (the middle being the non-empty text between the first and    *)
(* the last dot); else the extension when the name is index + "." + a      *)
(* dot-free extension; else ".tsx".                                        *)
C9_NameDerivation ==
    nPc = "derived" =>
        LET rest == SubSeq(nFile, 6, Len(nFile))
            dotFree(a, b) == \A k \in a..b : rest[k] # "."
            caseA == \E j \in 3..(Len(rest) - 1) :
                        rest[1] = "." /\ rest[j] = "." /\ dotFree(j + 1, Len(rest))
            caseB == Len(rest) >= 2 /\ rest[1] = "." /\ dotFree(2, Len(rest))
        IN  nResult = IF caseA \/ caseB THEN nParent \o rest ELSE nParent \o DotTsx

\* A name with a middle segment was derived.
C9_Witness ==
    /\ nPc = "derived"
    /\ nFile = IndexDot \o <<"t", ".", "t", "s">>
    /\ nResult = nParent \o <<".", "t", ".", "t", "s">>

(* C10 - after a successful run every edited text is on disk in the file   *)
(* at its final path and the disk holds the original files with each       *)
(* selected index file's path replaced by its new path.                    *)
C10_EditsAtFinalPaths ==
    pc = "done" =>
        /\ DOMAIN disk = (DOMAIN disk0 \ Range(indexFiles))
                            \cup {newFilePath(f) : f \in Range(indexFiles)}
        /\ \A p \in DOMAIN disk0 :
              mem[p].imports # disk0[p].imports =>
                  LET final == IF p \in Range(indexFiles) THEN newFilePath(p) ELSE p
                  IN  final \in DOMAIN disk /\ disk[final].imports = mem[p].imports

====
